---- MODULE Spec2Model ----
(***************************************************************************)
(* Client-side authentication / session lifecycle of the inventory         *)
(* dashboard: the AuthService singleton (token, single-flight refresh,     *)
(* background refresh timer, logout callback, axios interceptors), the     *)
(* AuthProvider session state machine (hydrating / authenticated /        *)
(* unauthenticated), localStorage as the durable mirror, and the           *)
(* ProtectedRoute gate.                                                    *)
(*                                                                         *)
(* JavaScript runs on one event loop: every action below is one macrotask  *)
(* (a network response, a timer, a user interaction) together with the     *)
(* promise continuations it triggers.                                      *)
(***************************************************************************)
EXTENDS Integers, FiniteSets, Sequences, TLC

VARIABLES
    build,           \* which version of services/auth.ts the bundle contains
    accessToken,     \* AuthService.accessToken
    refreshPromise,  \* AuthService.refreshPromise: 0 (null) or the id of the shared exchange
    refreshTimer,    \* AuthService.refreshTimer: the handle of the timeout it armed
    timeouts,        \* the window.setTimeout callbacks of scheduleRefresh not yet run
    onLogout,        \* AuthService.onLogout is registered
    lsAccessToken,   \* localStorage 'accessToken'
    lsAuthUser,      \* localStorage 'authUser'
    lsPendingPath,   \* localStorage 'pending_path'
    user,            \* AuthProvider state: user
    ctxAccessToken,  \* AuthProvider state: accessToken
    status,          \* AuthProvider state: status
    pathname,        \* window.location.pathname
    now,             \* Date.now(), in ms
    bootPc,          \* position of rehydrateAuth: where it waits or the branch it returned from
    parsedUser,      \* rehydrateAuth's local parsedUser (null once rehydrateAuth has returned)
    loginPc,         \* position of AuthProvider.login
    loginErr,        \* what the last settled login() call rejected with
    req,             \* the HTTP requests going through apiClient (sends: times on the wire)
    pending,         \* ids of the refreshAccessToken exchanges in flight
    timerWait        \* ids of the exchanges a timer callback is awaiting

vars == <<build, accessToken, refreshPromise, refreshTimer, timeouts, onLogout, lsAccessToken,
          lsAuthUser, lsPendingPath, user, ctxAccessToken, status, pathname,
          now, bootPc, parsedUser, loginPc, loginErr, req, pending, timerWait>>

----------------------------------------------------------------------------
(* Bounds of the model *)

MaxReqs == 1
MaxEx == 2
MaxTimers == 2
Tick == 15000
MaxNow == 30000

(* Values *)

Null == "null"
Absent == "absent"
Tokens == {"T0", "T1", "T2"}
Users == {"U1", "U2"}
Errors == {"E401", "ENet"}
NoTokenError == "ENoToken"
Paths == {"/login", "/p/x", "/dashboard/products"}
Reqs == 1..MaxReqs
ExIds == 1..MaxEx
TimerIds == 1..MaxTimers
Urls == {"/api/products", "/api/qr/resolve/x", "/api/auth/logout/"}

Max(a, b) == IF a >= b THEN a ELSE b

----------------------------------------------------------------------------
(* utils/jwt *)

\* JavaScript values an expiry field or a result can be
Undefined == [type |-> "undefined", n |-> 0]
Num(n) == [type |-> "number", n |-> n]
Str(x) == [type |-> "string", n |-> 0]
NaN == [type |-> "nan", n |-> 0]

\* !v
Falsy(v) == v.type \in {"undefined", "nan"} \/ (v.type = "number" /\ v.n = 0)

\* the strings the token clock is applied to: their number of dot-separated
\* segments, whether atob and JSON.parse accept the second one, and the exp
\* field of the object it parses to
Jwt(token) ==
    CASE token = "T0" -> [segments |-> 3, decodes |-> TRUE, exp |-> Num(30)]
      [] token = "T1" -> [segments |-> 3, decodes |-> TRUE, exp |-> Num(150)]
      [] token = "T2" -> [segments |-> 1, decodes |-> FALSE, exp |-> Undefined]
      [] token = "part1.part2" -> [segments |-> 2, decodes |-> TRUE, exp |-> Num(150)]
      [] token = "a.b.c.d" -> [segments |-> 4, decodes |-> TRUE, exp |-> Num(150)]
      [] token = "h.%%%.s" -> [segments |-> 3, decodes |-> FALSE, exp |-> Undefined]
      [] token = "h.{}.s" -> [segments |-> 3, decodes |-> TRUE, exp |-> Undefined]
      [] token = "h.{exp:'abc'}.s" -> [segments |-> 3, decodes |-> TRUE, exp |-> Str("abc")]
      [] OTHER -> [segments |-> 0, decodes |-> FALSE, exp |-> Undefined]

JwtInputs == {"T0", "T1", "T2", "part1.part2", "a.b.c.d", "h.%%%.s", "h.{}.s",
              "h.{exp:'abc'}.s", ""}

NoPayload == [ok |-> FALSE, exp |-> Undefined]

\* the payload a token decodes to, or null: the try block returns null for
\* a wrong number of segments and its catch for a throw of atob or JSON.parse
decodeJWT(token) ==
    IF Jwt(token).segments # 3 THEN NoPayload
    ELSE IF ~Jwt(token).decodes THEN NoPayload
    ELSE [ok |-> TRUE, exp |-> Jwt(token).exp]

\* null as the result of the functions that return number | null
NoTime == [known |-> FALSE, ms |-> 0, nan |-> FALSE]

\* payload.exp * 1000
getTokenExpiry(token) ==
    LET payload == decodeJWT(token)
    IN  IF ~payload.ok \/ Falsy(payload.exp)
        THEN NoTime
        ELSE IF payload.exp.type = "number"
        THEN [known |-> TRUE, ms |-> payload.exp.n * 1000, nan |-> FALSE]
        ELSE [known |-> TRUE, ms |-> 0, nan |-> TRUE]

getTimeUntilExpiry(token, t) ==
    LET expiryTime == getTokenExpiry(token)
    IN  IF ~expiryTime.known \/ expiryTime.nan \/ expiryTime.ms = 0
        THEN NoTime
        ELSE [known |-> TRUE, ms |-> expiryTime.ms - t, nan |-> FALSE]

\* "null", or the boolean payload.exp < Math.floor(Date.now() / 1000), which
\* is false when payload.exp converts to NaN
isTokenExpired(token, t) ==
    LET payload == decodeJWT(token)
        currentTime == t \div 1000
    IN  IF ~payload.ok \/ Falsy(payload.exp) THEN "null"
        ELSE IF payload.exp.type = "number" /\ payload.exp.n < currentTime THEN "true"
        ELSE "false"

----------------------------------------------------------------------------
(* localStorage values and JSON *)

NoEntry == [kind |-> "absent", val |-> ""]
Text(s) == [kind |-> "text", val |-> s]

\* JSON.stringify(user); Stringify(Null) is the JSON text null
Stringify(u) == [kind |-> "json", val |-> u]

\* JSON.parse(entry): throws on anything that is not JSON text
JSONparse(entry) ==
    IF entry.kind = "json" THEN [ok |-> TRUE, user |-> entry.val]
    ELSE [ok |-> FALSE, user |-> Null]

\* !localStorage.getItem(key): a missing entry and the empty string are falsy
FalsyEntry(entry) == entry.kind = "absent" \/ (entry.kind = "text" /\ entry.val = "")
FalsyToken(t) == t = Absent \/ t = ""

----------------------------------------------------------------------------
(* The mutable world the synchronous code of one task runs on *)

NoTimer == [armed |-> FALSE, delay |-> 0, fireAt |-> 0, id |-> 0]

Cur == [build |-> build, accessToken |-> accessToken, refreshPromise |-> refreshPromise,
        refreshTimer |-> refreshTimer, timeouts |-> timeouts, onLogout |-> onLogout,
        lsAccessToken |-> lsAccessToken, lsAuthUser |-> lsAuthUser,
        lsPendingPath |-> lsPendingPath, user |-> user,
        ctxAccessToken |-> ctxAccessToken, status |-> status,
        pathname |-> pathname, now |-> now]

Commit(w) ==
    /\ build' = build
    /\ accessToken' = w.accessToken
    /\ refreshPromise' = w.refreshPromise
    /\ refreshTimer' = w.refreshTimer
    /\ timeouts' = w.timeouts
    /\ onLogout' = w.onLogout
    /\ lsAccessToken' = w.lsAccessToken
    /\ lsAuthUser' = w.lsAuthUser
    /\ lsPendingPath' = w.lsPendingPath
    /\ user' = w.user
    /\ ctxAccessToken' = w.ctxAccessToken
    /\ status' = w.status
    /\ pathname' = w.pathname
    /\ now' = w.now

----------------------------------------------------------------------------
(* AuthService, the version with the soft scheduled-refresh failure        *)

\* window.clearTimeout(id)
clearTimeout(ts, id) == {tm \in ts : tm.id # id}

clearRefreshTimer(w) ==
    IF w.refreshTimer.armed
    THEN [w EXCEPT !.timeouts = clearTimeout(w.timeouts, w.refreshTimer.id),
                   !.refreshTimer = NoTimer]
    ELSE w

\* the id window.setTimeout returns: one no pending timeout has
FreeTimer(ts) ==
    LET free == TimerIds \ {tm.id : tm \in ts}
    IN  IF free = {} THEN MaxTimers
        ELSE CHOOSE i \in free : \A j \in free : i <= j

\* this.refreshTimer = window.setTimeout(callback, delay)
setTimeout(w, delay) ==
    LET id == FreeTimer(w.timeouts)
    IN  [w EXCEPT !.timeouts = w.timeouts \cup {[id |-> id, fireAt |-> w.now + delay]},
                  !.refreshTimer = [armed |-> TRUE, delay |-> delay,
                                    fireAt |-> w.now + delay, id |-> id]]

GuardWindow == 120000
Floor == 15000

\* scheduleRefresh without the clearRefreshTimer() it starts with
scheduleRefreshStacking(w, token) ==
    LET ms == getTimeUntilExpiry(token, w.now)
    IN  IF ~ms.known \/ ms.ms <= 0
        THEN w
        ELSE setTimeout(w, Max(ms.ms - GuardWindow, Floor))

\* scheduleRefresh arming the floor delay for a token it cannot schedule from
scheduleRefreshFloorForUnknown(w, token) ==
    LET w1 == clearRefreshTimer(w)
        ms == getTimeUntilExpiry(token, w.now)
    IN  IF ~ms.known \/ ms.ms <= 0
        THEN setTimeout(w1, Floor)
        ELSE setTimeout(w1, Max(ms.ms - GuardWindow, Floor))

\* scheduleRefresh without the lower bound on the delay
scheduleRefreshNoFloor(w, token) ==
    LET w1 == clearRefreshTimer(w)
        ms == getTimeUntilExpiry(token, w.now)
    IN  IF ~ms.known \/ ms.ms <= 0
        THEN w1
        ELSE LET delay == ms.ms - GuardWindow
             IN  setTimeout(w1, delay)

scheduleRefresh(w, token) ==
    LET w1 == clearRefreshTimer(w)
        ms == getTimeUntilExpiry(token, w.now)
    IN  IF ~ms.known \/ ms.ms <= 0
        THEN w1
        ELSE LET delay == Max(ms.ms - GuardWindow, Floor)
             IN  setTimeout(w1, delay)

\* setAccessToken without the call to scheduleRefresh
setAccessTokenUnscheduled(w, token) ==
    [w EXCEPT !.accessToken = token, !.lsAccessToken = token]

setAccessToken(w, token) ==
    scheduleRefresh([w EXCEPT !.accessToken = token, !.lsAccessToken = token], token)

clearAccessToken(w) ==
    clearRefreshTimer([w EXCEPT !.accessToken = Null, !.lsAccessToken = Absent])

\* a logout callback that sends the session back to hydrating
logoutCallbackRehydrating(w) ==
    [w EXCEPT !.user = Null, !.ctxAccessToken = Null, !.status = "hydrating"]

\* the callback AuthProvider registers with setLogoutCallback
logoutCallback(w) ==
    [w EXCEPT !.user = Null, !.ctxAccessToken = Null, !.status = "unauthenticated"]

\* a performLogout that writes the pending path without removing the old one
performLogoutKeepsPending(w) ==
    LET w1 == [clearAccessToken(w) EXCEPT !.lsAuthUser = NoEntry]
        w2 == IF w1.pathname # "/login" /\ w1.pathname # "/p/x"
              THEN [w1 EXCEPT !.lsPendingPath = w1.pathname]
              ELSE w1
        w3 == IF w2.onLogout THEN logoutCallback(w2) ELSE w2
    IN  IF w3.pathname # "/p/x" THEN [w3 EXCEPT !.pathname = "/login"] ELSE w3

performLogout(w) ==
    LET w1 == [clearAccessToken(w) EXCEPT !.lsAuthUser = NoEntry,
                                          !.lsPendingPath = Absent]
        w2 == IF w1.pathname # "/login" /\ w1.pathname # "/p/x"
              THEN [w1 EXCEPT !.lsPendingPath = w1.pathname]
              ELSE w1
        w3 == IF w2.onLogout THEN logoutCallback(w2) ELSE w2
    IN  IF w3.pathname # "/p/x" THEN [w3 EXCEPT !.pathname = "/login"] ELSE w3

\* the catch of attemptSilentRefresh
silentRefreshFailed(w) == [w EXCEPT !.lsAccessToken = Absent]

\* ids are reused: an id is free when its exchange has settled
FreeEx(pend) == CHOOSE e \in ExIds \ pend : \A f \in ExIds \ pend : e <= f

\* refreshAccessToken() up to its await: the handle the caller gets, and
\* whether the call issued a POST to /api/auth/refresh/
refreshAccessToken(w, pend) ==
    IF w.refreshPromise # 0
    THEN [kind |-> "join", handle |-> w.refreshPromise]
    ELSE [kind |-> "post", handle |-> FreeEx(pend)]

\* a refresh that stores the new token and leaves the timer as it is
refreshResolvedNoReschedule(w, t) ==
    [w EXCEPT !.accessToken = t, !.lsAccessToken = t, !.refreshPromise = 0]

\* the async body of refreshAccessToken after a successful POST
refreshResolved(w, t) ==
    [setAccessToken(w, t) EXCEPT !.refreshPromise = 0]

\* ... and after a rejected POST
refreshRejected(w) == [w EXCEPT !.refreshPromise = 0]

\* the .catch of the timer callback in scheduleRefresh
scheduledRefreshFailed(w) == clearAccessToken(w)

\* the catch of the response interceptor
interceptorRefreshFailed(w) == clearAccessToken(w)

isAuthEndpoint(url) == url \in {"/api/auth/login/", "/api/auth/refresh/"}

\* a response interceptor that does not look at the _retry mark
responseInterceptorNoRetryMark(url, code, retry) ==
    IF code = "E401"
    THEN IF isAuthEndpoint(url) THEN "reject" ELSE "refresh"
    ELSE "reject"

\* the response interceptor's decision on an error response
responseInterceptor(url, code, retry) ==
    IF code = "E401" /\ ~retry
    THEN IF isAuthEndpoint(url) THEN "reject" ELSE "refresh"
    ELSE "reject"

----------------------------------------------------------------------------
(* AuthService, the version whose refresh failure forces the logout        *)

GuardWindow007 == 60000
Floor007 == 30000

scheduleRefresh007(w, token) ==
    LET w1 == clearRefreshTimer(w)
        timeUntilExpiry == getTimeUntilExpiry(token, w.now)
    IN  IF ~timeUntilExpiry.known \/ timeUntilExpiry.ms <= 0
        THEN w1
        ELSE LET refreshDelay == Max(timeUntilExpiry.ms - GuardWindow007, Floor007)
             IN  setTimeout(w1, refreshDelay)

setAccessToken007(w, token) ==
    scheduleRefresh007([w EXCEPT !.accessToken = token], token)

clearAccessToken007(w) ==
    clearRefreshTimer([w EXCEPT !.accessToken = Null, !.refreshPromise = 0])

performLogout007(w) ==
    LET w1 == [clearAccessToken007(w) EXCEPT !.lsAccessToken = Absent,
                                             !.lsAuthUser = NoEntry,
                                             !.lsPendingPath = Absent]
        w2 == IF w1.pathname # "/login" /\ w1.pathname # "/p/x"
              THEN [w1 EXCEPT !.lsPendingPath = w1.pathname]
              ELSE w1
        w3 == IF w2.onLogout THEN logoutCallback(w2) ELSE w2
    IN  IF w3.pathname # "/p/x" THEN [w3 EXCEPT !.pathname = "/login"] ELSE w3

silentRefreshFailed007(w) ==
    [w EXCEPT !.lsAccessToken = Absent, !.lsAuthUser = NoEntry]

refreshAccessToken007(w, pend) ==
    IF w.accessToken = Null
    THEN [kind |-> "throw", handle |-> 0]
    ELSE IF w.refreshPromise # 0
    THEN [kind |-> "join", handle |-> w.refreshPromise]
    ELSE [kind |-> "post", handle |-> FreeEx(pend)]

refreshResolved007(w, t) ==
    LET w1 == [w EXCEPT !.accessToken = t, !.lsAccessToken = t]
    IN  [scheduleRefresh007(w1, t) EXCEPT !.refreshPromise = 0]

refreshRejected007(w) ==
    [performLogout007(w) EXCEPT !.refreshPromise = 0]

scheduledRefreshFailed007(w) == w

interceptorRefreshFailed007(w) == w

responseInterceptor007(url, code, retry) ==
    IF code = "E401" /\ ~retry
    THEN IF isAuthEndpoint(url) \/ url = "/api/qr/resolve/x"
         THEN "reject" ELSE "refresh"
    ELSE "reject"

----------------------------------------------------------------------------
(* authService as imported from '../services/auth': the bundled version    *)

SetAccessToken(w, token) ==
    IF w.build = "part_004" THEN setAccessToken(w, token) ELSE setAccessToken007(w, token)

ClearAccessToken(w) ==
    IF w.build = "part_004" THEN clearAccessToken(w) ELSE clearAccessToken007(w)

PerformLogout(w) ==
    IF w.build = "part_004" THEN performLogout(w) ELSE performLogout007(w)

SilentRefreshFailed(w) ==
    IF w.build = "part_004" THEN silentRefreshFailed(w) ELSE silentRefreshFailed007(w)

RefreshAccessToken(w, pend) ==
    IF w.build = "part_004" THEN refreshAccessToken(w, pend)
    ELSE refreshAccessToken007(w, pend)

RefreshResolved(w, t) ==
    IF w.build = "part_004" THEN refreshResolved(w, t) ELSE refreshResolved007(w, t)

RefreshRejected(w) ==
    IF w.build = "part_004" THEN refreshRejected(w) ELSE refreshRejected007(w)

ScheduledRefreshFailed(w) ==
    IF w.build = "part_004" THEN scheduledRefreshFailed(w)
    ELSE scheduledRefreshFailed007(w)

InterceptorRefreshFailed(w) ==
    IF w.build = "part_004" THEN interceptorRefreshFailed(w)
    ELSE interceptorRefreshFailed007(w)

ResponseInterceptor(w, url, code, retry) ==
    IF w.build = "part_004" THEN responseInterceptor(url, code, retry)
    ELSE responseInterceptor007(url, code, retry)

\* the request interceptor: the Authorization header a request leaves with
requestInterceptor(w, header) ==
    IF w.accessToken # Null THEN w.accessToken ELSE header

\* a logout that only drops the token and leaves the rest of the session
logoutSettledKeepsSession(w) == ClearAccessToken(w)

\* a replay that goes out with the header of the failed attempt
replayStaleToken(q, w, t) ==
    [q EXCEPT !.st = "sent", !.ex = 0, !.sends = q.sends + 1]

\* the response interceptor after refreshAccessToken() resolved with t: it
\* sets the Authorization header to t and sends the request again, through
\* the request interceptor
replay(q, w, t) ==
    [q EXCEPT !.st = "sent", !.ex = 0, !.auth = requestInterceptor(w, t),
              !.sends = q.sends + 1]

\* AuthService.logout after its POST settled either way
logoutSettled(w) == PerformLogout(w)

----------------------------------------------------------------------------
(* ProtectedRoute *)

RoleOf(u) == IF u = "U1" THEN "ADMIN" ELSE "viewer"

normalizeRole(role) ==
    CASE role \in {"MANAGER", "Manager", "manager", "BRAND_MANAGER",
                   "Brand_Manager", "brand_manager"} -> "BRAND_MANAGER"
      [] role \in {"ADMIN", "Admin", "admin"} -> "ADMIN"
      [] role \in {"STAFF", "Staff", "staff"} -> "STAFF"
      [] role = "viewer" -> "VIEWER"
      [] OTHER -> role

AllowedRoles == {"ADMIN", "BRAND_MANAGER", "MANAGER"}

hasRoleAccess(userRole, allowedRoles) ==
    LET normalizedUserRole == normalizeRole(userRole)
    IN  /\ normalizedUserRole # ""
        /\ normalizedUserRole \in {normalizeRole(r) : r \in allowedRoles}

isHydrating(st) == st = "hydrating"
isAuthenticated(st) == st = "authenticated"

\* ProtectedRoute without the isHydrating() branch
ProtectedRouteNoHydrating(st, u) ==
    IF ~isAuthenticated(st) THEN "navigate"
    ELSE IF u # Null /\ ~hasRoleAccess(RoleOf(u), AllowedRoles) THEN "denied"
    ELSE "children"

\* what a ProtectedRoute element renders to
ProtectedRoute(st, u) ==
    IF isHydrating(st) THEN "loading"
    ELSE IF ~isAuthenticated(st) THEN "navigate"
    ELSE IF u # Null /\ ~hasRoleAccess(RoleOf(u), AllowedRoles) THEN "denied"
    ELSE "children"

\* the routes of AppRouter that are wrapped in a ProtectedRoute
IsProtectedPath(p) == p = "/dashboard/products"

\* what the route element at the current location shows
View == IF IsProtectedPath(pathname) THEN ProtectedRoute(status, user) ELSE "public"

----------------------------------------------------------------------------
(* Initial state: the module has been loaded, AuthService constructed and  *)
(* AuthProvider rendered for the first time; localStorage holds whatever   *)
(* an earlier page load (or anything else) left there.                     *)

IdleReq == [url |-> "none", st |-> "idle", retry |-> FALSE, auth |-> Null,
            ex |-> 0, res |-> "none", sends |-> 0]

InitState ==
    /\ accessToken = Null
    /\ refreshPromise = 0
    /\ refreshTimer = NoTimer
    /\ timeouts = {}
    /\ onLogout = FALSE
    /\ lsAccessToken \in {Absent, "", "T0"}
    /\ pathname \in Paths
    /\ lsAuthUser \in {NoEntry, Text(""), Text("not-json"), Stringify("U1"),
                      Stringify(Null)}
    /\ lsPendingPath = Absent
    /\ user = Null
    /\ ctxAccessToken = Null
    /\ status = "hydrating"
    /\ now = 0
    /\ bootPc = "start"
    /\ parsedUser = Null
    /\ loginPc = "idle"
    /\ loginErr = "none"
    /\ req = [r \in Reqs |-> IdleReq]
    /\ pending = {}
    /\ timerWait = {}

Init == build = "part_004" /\ InitState

Init007 == build = "part_007" /\ InitState

Procs == <<bootPc, parsedUser, loginPc, loginErr, req, pending, timerWait>>

----------------------------------------------------------------------------
(* AuthProvider: boot *)

\* useEffect on mount: setLogoutCallback, then rehydrateAuth up to its await
rehydrateStart(w) ==
    IF FalsyToken(w.lsAccessToken) \/ FalsyEntry(w.lsAuthUser)
    THEN [w EXCEPT !.status = "unauthenticated"]
    ELSE IF ~JSONparse(w.lsAuthUser).ok
    THEN [w EXCEPT !.lsAccessToken = Absent, !.lsAuthUser = NoEntry,
                   !.status = "unauthenticated"]
    ELSE w

BootStart ==
    /\ bootPc = "start"
    /\ LET w0 == [Cur EXCEPT !.onLogout = TRUE]
           stored == JSONparse(lsAuthUser)
           goes == ~FalsyToken(lsAccessToken) /\ ~FalsyEntry(lsAuthUser) /\ stored.ok
       IN  /\ Commit(rehydrateStart(w0))
           /\ bootPc' = IF goes THEN "awaitSilent"
                        ELSE IF FalsyToken(lsAccessToken) \/ FalsyEntry(lsAuthUser)
                        THEN "missing" ELSE "corrupt"
           /\ parsedUser' = IF goes THEN stored.user ELSE Null
    /\ UNCHANGED <<loginPc, loginErr, req, pending, timerWait>>

\* rehydrateAuth keeping the stored token instead of the refreshed one
rehydrateRefreshedKeepsStored(w, t, u) ==
    LET w1 == [w EXCEPT !.ctxAccessToken = w.lsAccessToken, !.user = u,
                        !.status = "authenticated"]
    IN  SetAccessToken(w1, w.lsAccessToken)

\* attemptSilentRefresh resolved with {access: t}; rehydrateAuth continues
rehydrateRefreshed(w, t, u) ==
    LET w1 == [w EXCEPT !.ctxAccessToken = t, !.user = u,
                        !.status = "authenticated", !.lsAccessToken = t]
    IN  SetAccessToken(w1, t)

SilentRefreshOk(t) ==
    /\ bootPc = "awaitSilent"
    /\ Commit(rehydrateRefreshed(Cur, t, parsedUser))
    /\ bootPc' = "refreshed"
    /\ parsedUser' = Null
    /\ UNCHANGED <<loginPc, loginErr, req, pending, timerWait>>

\* the POST of attemptSilentRefresh rejected: its catch, then rehydrateAuth's else branch
rehydrateFailed(w) ==
    LET w1 == SilentRefreshFailed(w)
        w2 == [w1 EXCEPT !.user = Null, !.ctxAccessToken = Null,
                         !.status = "unauthenticated"]
    IN  ClearAccessToken(w2)

SilentRefreshFail ==
    /\ bootPc = "awaitSilent"
    /\ Commit(rehydrateFailed(Cur))
    /\ bootPc' = "failed"
    /\ parsedUser' = Null
    /\ UNCHANGED <<loginPc, loginErr, req, pending, timerWait>>

----------------------------------------------------------------------------
(* AuthProvider: login *)

LoginStart ==
    /\ bootPc # "start"
    /\ loginPc = "idle"
    /\ loginPc' = "pending"
    /\ loginErr' = "none"
    /\ Commit(Cur)
    /\ UNCHANGED <<bootPc, parsedUser, req, pending, timerWait>>

loginResolved(w, t, u) ==
    LET w1 == [w EXCEPT !.user = u, !.ctxAccessToken = t, !.status = "authenticated",
                        !.lsAccessToken = t, !.lsAuthUser = Stringify(u)]
    IN  SetAccessToken(w1, t)

LoginOk(t, u) ==
    /\ loginPc = "pending"
    /\ Commit(loginResolved(Cur, t, u))
    /\ loginPc' = "idle"
    /\ UNCHANGED <<bootPc, parsedUser, loginErr, req, pending, timerWait>>

\* a login that clears the session when its exchange rejects
loginRejectedClearsSession(w, e) == logoutCallback(w)

\* the credential exchange rejected with e: login has no catch
loginRejected(w, e) == w

LoginFail(e) ==
    /\ loginPc = "pending"
    /\ Commit(loginRejected(Cur, e))
    /\ loginPc' = "idle"
    /\ loginErr' = e
    /\ UNCHANGED <<bootPc, parsedUser, req, pending, timerWait>>

----------------------------------------------------------------------------
(* Requests through apiClient *)

CanCallRefresh == refreshPromise # 0 \/ ExIds \ pending # {}

\* the requests awaiting exchange ex in the response interceptor
Waiting(ex) == {r \in Reqs : req[r].st = "refreshing" /\ req[r].ex = ex}

SendRequest(r, url) ==
    /\ bootPc # "start"
    /\ req[r].st = "idle"
    /\ req' = [req EXCEPT ![r] = [url |-> url, st |-> "sent", retry |-> FALSE,
                                  auth |-> requestInterceptor(Cur, Null),
                                  ex |-> 0, res |-> "none", sends |-> 1]]
    /\ Commit(Cur)
    /\ UNCHANGED <<bootPc, parsedUser, loginPc, loginErr, pending, timerWait>>

\* AuthProvider.logout -> AuthService.logout: the POST to /api/auth/logout/
LogoutStart(r) == SendRequest(r, "/api/auth/logout/")

\* LogoutPage's effect: it removes 'pending_path', then calls
\* authService.logout()
LogoutPage(r) ==
    /\ bootPc # "start"
    /\ req[r].st = "idle"
    /\ lsPendingPath # Absent
    /\ req' = [req EXCEPT ![r] = [url |-> "/api/auth/logout/", st |-> "sent",
                                  retry |-> FALSE,
                                  auth |-> requestInterceptor(Cur, Null),
                                  ex |-> 0, res |-> "none", sends |-> 1]]
    /\ Commit([Cur EXCEPT !.lsPendingPath = Absent])
    /\ UNCHANGED <<bootPc, parsedUser, loginPc, loginErr, pending, timerWait>>

ApiRequest(r) == \E url \in Urls \ {"/api/auth/logout/"} : SendRequest(r, url)

\* the request settles towards its caller with res
Settle(w, r, res) ==
    /\ Commit(IF req[r].url = "/api/auth/logout/" THEN logoutSettled(w) ELSE w)
    /\ req' = [req EXCEPT ![r] = [IdleReq EXCEPT !.res = res, !.sends = req[r].sends]]

Respond200(r) ==
    /\ req[r].st = "sent"
    /\ Settle(Cur, r, "ok")
    /\ UNCHANGED <<bootPc, parsedUser, loginPc, loginErr, pending, timerWait>>

\* an error response the response interceptor passes on to the caller
RespondError(r, e) ==
    /\ req[r].st = "sent"
    /\ ResponseInterceptor(Cur, req[r].url, e, req[r].retry) = "reject"
    /\ Settle(Cur, r, e)
    /\ UNCHANGED <<bootPc, parsedUser, loginPc, loginErr, pending, timerWait>>

\* a first 401 on a request that is not exempt: refresh, then replay
Respond401(r) ==
    /\ req[r].st = "sent"
    /\ ResponseInterceptor(Cur, req[r].url, "E401", req[r].retry) = "refresh"
    /\ CanCallRefresh
    /\ LET call == RefreshAccessToken(Cur, pending)
       IN  IF call.kind = "throw"
           THEN /\ Settle(InterceptorRefreshFailed(Cur), r, NoTokenError)
                /\ pending' = pending
           ELSE /\ req' = [req EXCEPT ![r].st = "refreshing", ![r].retry = TRUE,
                                      ![r].ex = call.handle]
                /\ Commit([Cur EXCEPT !.refreshPromise = call.handle])
                /\ pending' = IF call.kind = "post" THEN pending \cup {call.handle}
                              ELSE pending
    /\ UNCHANGED <<bootPc, parsedUser, loginPc, loginErr, timerWait>>

----------------------------------------------------------------------------
(* The refresh exchange settles *)

RefreshOk(ex, t) ==
    /\ ex \in pending
    /\ LET w1 == RefreshResolved(Cur, t)
       IN  /\ Commit(w1)
           /\ req' = [r \in Reqs |->
                        IF r \in Waiting(ex)
                        THEN replay(req[r], w1, t)
                        ELSE req[r]]
    /\ pending' = pending \ {ex}
    /\ timerWait' = timerWait \ {ex}
    /\ UNCHANGED <<bootPc, parsedUser, loginPc, loginErr>>

RefreshFail(ex, e) ==
    /\ ex \in pending
    /\ LET w1 == RefreshRejected(Cur)
           w2 == IF ex \in timerWait THEN ScheduledRefreshFailed(w1) ELSE w1
           w3 == IF Waiting(ex) # {} THEN InterceptorRefreshFailed(w2) ELSE w2
           w4 == IF \E r \in Waiting(ex) : req[r].url = "/api/auth/logout/"
                 THEN logoutSettled(w3) ELSE w3
       IN  Commit(w4)
    /\ req' = [r \in Reqs |->
                 IF r \in Waiting(ex)
                 THEN [IdleReq EXCEPT !.res = e, !.sends = req[r].sends]
                 ELSE req[r]]
    /\ pending' = pending \ {ex}
    /\ timerWait' = timerWait \ {ex}
    /\ UNCHANGED <<bootPc, parsedUser, loginPc, loginErr>>

----------------------------------------------------------------------------
(* The background timer and the clock *)

\* the setTimeout callback of scheduleRefresh runs; the id this.refreshTimer
\* keeps afterwards names no timeout any more, which clearRefreshTimer treats
\* like null
TimerFire ==
    /\ CanCallRefresh
    /\ \E tm \in timeouts :
         /\ now >= tm.fireAt
         /\ LET call == RefreshAccessToken(Cur, pending)
                w1 == [Cur EXCEPT !.timeouts = timeouts \ {tm},
                                  !.refreshTimer = IF refreshTimer.id = tm.id
                                                   THEN NoTimer ELSE refreshTimer]
            IN  IF call.kind = "throw"
                THEN /\ Commit(ScheduledRefreshFailed(w1))
                     /\ UNCHANGED <<pending, timerWait>>
                ELSE /\ Commit([w1 EXCEPT !.refreshPromise = call.handle])
                     /\ pending' = IF call.kind = "post"
                                   THEN pending \cup {call.handle} ELSE pending
                     /\ timerWait' = timerWait \cup {call.handle}
    /\ UNCHANGED <<bootPc, parsedUser, loginPc, loginErr, req>>

Advance ==
    /\ now + Tick <= MaxNow
    /\ Commit([Cur EXCEPT !.now = now + Tick])
    /\ UNCHANGED Procs

\* <Navigate to="/login"> rendered by a ProtectedRoute takes effect
RouteRedirect ==
    /\ View = "navigate"
    /\ Commit([Cur EXCEPT !.pathname = "/login"])
    /\ UNCHANGED Procs

----------------------------------------------------------------------------
Next ==
    \/ BootStart
    \/ \E t \in Tokens : SilentRefreshOk(t)
    \/ SilentRefreshFail
    \/ LoginStart
    \/ \E t \in Tokens, u \in Users : LoginOk(t, u)
    \/ \E e \in Errors : LoginFail(e)
    \/ \E r \in Reqs : LogoutStart(r)
    \/ \E r \in Reqs : LogoutPage(r)
    \/ \E r \in Reqs : ApiRequest(r)
    \/ \E r \in Reqs : Respond200(r)
    \/ \E r \in Reqs, e \in Errors : RespondError(r, e)
    \/ \E r \in Reqs : Respond401(r)
    \/ \E ex \in ExIds, t \in Tokens : RefreshOk(ex, t)
    \/ \E ex \in ExIds, e \in Errors : RefreshFail(ex, e)
    \/ TimerFire
    \/ Advance
    \/ RouteRedirect

\* the bundle with the AuthService of the soft scheduled-refresh failure
Spec == Init /\ [][Next]_vars

\* the bundle with the AuthService whose refresh failure forces the logout
Spec007 == Init007 /\ [][Next]_vars

TypeOK ==
    /\ accessToken \in Tokens \cup {Null}
    /\ refreshPromise \in ExIds \cup {0}
    /\ lsAccessToken \in Tokens \cup {Absent, ""}
    /\ user \in Users \cup {Null}
    /\ ctxAccessToken \in Tokens \cup {Null}
    /\ status \in {"hydrating", "authenticated", "unauthenticated"}
    /\ pathname \in Paths
    /\ bootPc \in {"start", "awaitSilent", "missing", "corrupt", "refreshed", "failed"}
    /\ loginPc \in {"idle", "pending"}
    /\ pending \subseteq ExIds
    /\ timerWait \subseteq pending
    /\ \A tm \in timeouts : tm.id \in TimerIds

----------------------------------------------------------------------------
(* Properties *)

\* the POSTs to /api/auth/refresh/ that are outstanding
RefreshPostsOutstanding ==
    Cardinality(pending) + (IF bootPc = "awaitSilent" THEN 1 ELSE 0)

\* C1: while a refreshAccessToken() exchange is pending, a further call
\* (timer callback or 401 interceptor) issues no POST and awaits the pending
\* exchange, so that it settles with that exchange's outcome; one exchange
\* serves all its callers.
C1_SingleFlight ==
    /\ [](Cardinality(pending) <= 1)
    /\ [][pending # {} => pending' \subseteq pending]_vars
    /\ [][\A r \in Reqs :
            (pending # {} /\ Respond401(r)) =>
               (req'[r].st = "refreshing" /\ req'[r].ex \in pending)]_vars
    /\ [][(pending # {} /\ TimerFire) =>
            (timerWait' # {} /\ timerWait' \subseteq pending)]_vars
    /\ [][\A ex \in ExIds, e \in Errors :
            RefreshFail(ex, e) => \A r \in Waiting(ex) : req'[r].res = e]_vars
    /\ [][\A ex \in ExIds, t \in Tokens :
            RefreshOk(ex, t) => \A r \in Waiting(ex) : req'[r].auth = t]_vars

\* a request and a timer callback both await the one pending exchange
C1_Witness ==
    /\ pending # {}
    /\ timerWait = pending
    /\ \E r \in Reqs : req[r].st = "refreshing" /\ req[r].ex \in pending

\* C2: at most one POST to the refresh endpoint is outstanding, counting the
\* boot-time attemptSilentRefresh as well as refreshAccessToken.
C2_AtMostOneRefreshPost == RefreshPostsOutstanding <= 1

\* C3: status is one of the three values, starts as hydrating and is never
\* set back to hydrating once it has left it.
C3_HydratingNeverReentered ==
    /\ status = "hydrating"
    /\ [](status \in {"hydrating", "authenticated", "unauthenticated"})
    /\ [][status # "hydrating" => status' # "hydrating"]_vars

\* boot resolved, then a logout and a later login: three transitions later
C3_Witness ==
    /\ bootPc = "refreshed"
    /\ lsPendingPath # Absent
    /\ status = "authenticated"
    /\ user = "U2"

\* C4: boot with one durable entry missing (or both) ends unauthenticated
\* with both durable entries absent.
C4_PartialStateCleared ==
    [][(BootStart /\ (lsAccessToken = Absent \/ lsAuthUser = NoEntry))
        => (/\ status' = "unauthenticated"
            /\ lsAccessToken' = Absent
            /\ lsAuthUser' = NoEntry)]_vars

\* C5: boot with stored token and parseable user whose silent refresh
\* returns t ends authenticated, with the stored user and with t as the
\* token of AuthProvider, of AuthService and of localStorage.
C5_BootRefreshed ==
    [][\A t \in Tokens :
         (bootPc = "awaitSilent" /\ bootPc' = "refreshed" /\ SilentRefreshOk(t)) =>
            /\ status' = "authenticated"
            /\ user' = parsedUser
            /\ ctxAccessToken' = t
            /\ accessToken' = t
            /\ lsAccessToken' = t]_vars

C5_Witness ==
    /\ bootPc = "refreshed"
    /\ status = "authenticated"
    /\ user = "U1"
    /\ ctxAccessToken = "T1"
    /\ accessToken = "T1"
    /\ lsAccessToken = "T1"
    /\ lsAuthUser = Stringify("U1")

\* C6: boot whose silent refresh rejects ends unauthenticated, with no user,
\* no token, no timer, and both durable entries absent.
C6_BootRefreshFailed ==
    [][SilentRefreshFail =>
         /\ status' = "unauthenticated"
         /\ user' = Null
         /\ ctxAccessToken' = Null
         /\ accessToken' = Null
         /\ ~refreshTimer'.armed
         /\ lsAccessToken' = Absent
         /\ lsAuthUser' = NoEntry]_vars

\* C7: boot with the user entry "not-json", which does not parse, whatever
\* the token entry is, removes both entries, ends unauthenticated with nothing in memory and
\* issues no refresh exchange.
C7_CorruptUserCleared ==
    [][(BootStart /\ lsAuthUser = Text("not-json"))
        => (/\ lsAccessToken' = Absent
            /\ lsAuthUser' = NoEntry
            /\ status' = "unauthenticated"
            /\ user' = Null
            /\ ctxAccessToken' = Null
            /\ accessToken' = Null
            /\ bootPc' # "awaitSilent"
            /\ pending' = {})]_vars

C9_LoginCommits ==
    [][(loginPc = "pending" /\ loginPc' = "idle") =>
         \A t \in Tokens, u \in Users :
            LoginOk(t, u) =>
               /\ status' = "authenticated"
               /\ user' = u
               /\ ctxAccessToken' = t
               /\ lsAccessToken' = t
               /\ lsAuthUser' = Stringify(u)
               /\ accessToken' = t
               /\ LET ms == getTimeUntilExpiry(t, now)
                  IN  (ms.known /\ ms.ms > 0) =>
                         /\ refreshTimer'.armed
                         /\ refreshTimer'.delay = Max(ms.ms - GuardWindow, Floor)
                         /\ refreshTimer'.fireAt = now + refreshTimer'.delay]_vars

C9_Witness ==
    /\ loginPc = "idle"
    /\ status = "authenticated"
    /\ user = "U2"
    /\ ctxAccessToken = "T1"
    /\ accessToken = "T1"
    /\ lsAccessToken = "T1"
    /\ lsAuthUser = Stringify("U2")
    /\ refreshTimer.armed
    /\ refreshTimer.fireAt = now + 30000

\* C10: a login whose exchange rejects with e rejects with e, sends nothing
\* again and leaves the session, the durable entries and the timer as they
\* were.
C10_LoginFailureChangesNothing ==
    [][\A e \in Errors :
         LoginFail(e) =>
            /\ loginErr' = e
            /\ loginPc' = "idle"
            /\ UNCHANGED <<status, user, ctxAccessToken, accessToken,
                           lsAccessToken, lsAuthUser, refreshTimer,
                           refreshPromise, pending>>]_vars

\* a rejected login on top of an authenticated session with its timer armed
C10_Witness ==
    /\ loginErr = "E401"
    /\ loginPc = "idle"
    /\ status = "authenticated"
    /\ refreshTimer.armed
    /\ accessToken # Null

\* the step in which the logout() call of request r returns
LogoutReturns(r) ==
    /\ req[r].url = "/api/auth/logout/"
    /\ req[r].st # "idle"
    /\ req'[r].st = "idle"

\* C11: whichever way the POST of logout() settles, when logout() returns the
\* token and the user are gone from memory and from localStorage, no refresh
\* timer is armed and status is unauthenticated.
C11_LogoutAlwaysCompletes ==
    [][\A r \in Reqs :
         LogoutReturns(r) =>
            /\ accessToken' = Null
            /\ ctxAccessToken' = Null
            /\ user' = Null
            /\ lsAccessToken' = Absent
            /\ lsAuthUser' = NoEntry
            /\ ~refreshTimer'.armed
            /\ status' = "unauthenticated"]_vars

\* a session that was authenticated with its timer armed, then a logout
\* whose POST failed on the network
C11_Witness ==
    /\ bootPc = "refreshed"
    /\ lsPendingPath = "/dashboard/products"
    /\ \E r \in Reqs : req[r].res = "ENet" /\ req[r].st = "idle"
    /\ status = "unauthenticated"
    /\ lsAccessToken = Absent
    /\ lsAuthUser = NoEntry
    /\ accessToken = Null

\* C12: a request is sent at most twice; a 401 on a request already marked
\* as retried is rejected to the caller, starts no refresh and is not
\* replayed.
C12_RetriedAtMostOnce ==
    /\ [](\A r \in Reqs : req[r].sends <= 2)
    /\ [][\A r \in Reqs : req[r].retry => ~Respond401(r)]_vars
    /\ [][\A r \in Reqs :
            (req[r].retry /\ RespondError(r, "E401")) =>
               /\ req'[r].st = "idle"
               /\ req'[r].res = "E401"
               /\ req'[r].sends = req[r].sends
               /\ pending' = pending]_vars

\* a replayed request was answered 401 again and rejected
C12_Witness ==
    \E r \in Reqs : req[r].st = "idle" /\ req[r].res = "E401" /\ req[r].sends = 2

\* the login endpoint, the refresh endpoint and the public QR resolution
ExemptUrls == {"/api/auth/login/", "/api/auth/refresh/", "/api/qr/resolve/x"}

\* C13: a 401 on a request to the login, refresh or public QR resolution
\* endpoint starts no refresh exchange and no replay: the 401 is rejected to
\* the caller and the token stays as it is.
C13_ExemptEndpoints ==
    /\ [](\A url \in ExemptUrls : ResponseInterceptor(Cur, url, "E401", FALSE) = "reject")
    /\ [][\A r \in Reqs :
            (/\ req[r].url \in ExemptUrls
             /\ Respond401(r) \/ RespondError(r, "E401")) =>
               /\ req'[r].st = "idle"
               /\ req'[r].res = "E401"
               /\ pending' = pending
               /\ refreshPromise' = refreshPromise
               /\ accessToken' = accessToken
               /\ lsAccessToken' = lsAccessToken]_vars
    /\ [][LoginFail("E401") =>
            /\ loginErr' = "E401"
            /\ pending' = pending
            /\ accessToken' = accessToken]_vars

\* a 401 on the public QR resolution was rejected to the caller of a session
\* that keeps its token
C13_Witness ==
    /\ \E r \in Reqs : req[r].st = "idle" /\ req[r].res = "E401" /\ req[r].sends = 1
    /\ pathname = "/p/x"
    /\ accessToken # Null
    /\ pending = {}

\* C14: when the exchange started by the refresh timer rejects, the token of
\* AuthService becomes absent while status, user and location stay as they
\* were: the logout callback does not run and nothing redirects.
C14_ScheduledFailureIsSoft ==
    [][\A ex \in ExIds, e \in Errors :
         (/\ RefreshFail(ex, e)
          /\ ex \in timerWait
          /\ \A r \in Waiting(ex) : req[r].url # "/api/auth/logout/") =>
            /\ accessToken' = Null
            /\ status' = status
            /\ user' = user
            /\ ctxAccessToken' = ctxAccessToken
            /\ lsAuthUser' = lsAuthUser
            /\ pathname' = pathname]_vars

\* the timer's exchange rejected under an authenticated session
C14_Witness ==
    /\ status = "authenticated"
    /\ user # Null
    /\ accessToken = Null
    /\ lsAccessToken = Absent
    /\ pending = {}
    /\ \A r \in Reqs : req[r].res = "none"

\* the instants the clock of the model takes
Times == {k * Tick : k \in 0..(MaxNow \div Tick)}

\* the two constants of the bundled scheduleRefresh
guardWindow == IF build = "part_004" THEN GuardWindow ELSE GuardWindow007
floor == IF build = "part_004" THEN Floor ELSE Floor007

\* the timer scheduleRefresh(token) leaves when called at instant t
Scheduled(token, t) == SetAccessToken([Cur EXCEPT !.now = t], token).refreshTimer

\* C15: for a token with known remaining lifetime r > 0 scheduleRefresh arms
\* the delay max(r - guardWindow, floor), with guardWindow > floor; the delay
\* is never below floor and does not grow when r shrinks. The first three
\* conjuncts state it of the function, for every token and instant (a
\* function of its arguments: stated once, of the initial state); the last
\* one of every step of the program that arms the timer.
C15_ScheduleDelay ==
    /\ guardWindow > floor
    /\ \A tk \in Tokens, t \in Times :
          LET r == getTimeUntilExpiry(tk, t)
          IN  (r.known /\ r.ms > 0) =>
                 /\ Scheduled(tk, t).armed
                 /\ Scheduled(tk, t).delay = Max(r.ms - guardWindow, floor)
                 /\ Scheduled(tk, t).delay >= floor
    /\ \A tk1 \in Tokens, tk2 \in Tokens, t1 \in Times, t2 \in Times :
          LET r1 == getTimeUntilExpiry(tk1, t1)
              r2 == getTimeUntilExpiry(tk2, t2)
          IN  (r1.known /\ r2.known /\ 0 < r1.ms /\ r1.ms <= r2.ms) =>
                 Scheduled(tk1, t1).delay <= Scheduled(tk2, t2).delay
    /\ [][(refreshTimer'.armed /\ refreshTimer' # refreshTimer) =>
            LET r == getTimeUntilExpiry(accessToken', now)
            IN  /\ r.known /\ r.ms > 0
                /\ refreshTimer'.delay = Max(r.ms - guardWindow, floor)
                /\ refreshTimer'.delay >= floor]_vars

\* a timer armed at the floor for a token whose lifetime less the guard
\* window is below the floor
C15_Witness ==
    /\ refreshTimer.armed
    /\ refreshTimer.delay = floor
    /\ accessToken = "T1"
    /\ getTimeUntilExpiry(accessToken, refreshTimer.fireAt - refreshTimer.delay).ms
          = floor + guardWindow - Tick

\* the timeout this.refreshTimer names
HandleTimeout ==
    IF refreshTimer.armed
    THEN {[id |-> refreshTimer.id, fireAt |-> refreshTimer.fireAt]}
    ELSE {}

\* C16: at most one refresh timeout is pending, and it is the one armed
\* last (the one this.refreshTimer names); every arming cancels the timeout
\* armed before, and setting the same token twice leaves the timer that
\* setting it once leaves.
C16_SingleTimer ==
    /\ [](Cardinality(timeouts) <= 1)
    /\ [](timeouts = HandleTimeout)
    /\ [](\A tk \in Tokens :
            LET once == SetAccessToken(Cur, tk)
                twice == SetAccessToken(once, tk)
            IN  /\ twice.timeouts = once.timeouts
                /\ twice.refreshTimer = once.refreshTimer
                /\ Cardinality(once.timeouts) <= 1)
    /\ [][(refreshTimer'.armed /\ refreshTimer' # refreshTimer) =>
            timeouts' = {[id |-> refreshTimer'.id, fireAt |-> refreshTimer'.fireAt]}]_vars
    /\ [][TimerFire => (timeouts # {} /\ timeouts' = {} /\ ~refreshTimer'.armed)]_vars

\* the session got T0 and its timer at boot; a refresh triggered by a 401
\* has set T1 and armed the timer again: one timeout is pending, the new one
C16_Witness ==
    /\ bootPc = "refreshed"
    /\ ctxAccessToken = "T0"
    /\ accessToken = "T1"
    /\ \E r \in Reqs : req[r].st = "sent" /\ req[r].sends = 2
    /\ timeouts = {[id |-> 1, fireAt |-> now + Floor]}
    /\ refreshTimer.armed
    /\ now = 2 * Tick

\* nothing is in flight: boot has returned, no login, request or refresh
\* exchange is pending
Quiescent ==
    /\ bootPc \notin {"start", "awaitSilent"}
    /\ loginPc = "idle"
    /\ \A r \in Reqs : req[r].st = "idle"
    /\ pending = {}

\* C17: in every quiescent state the durable token entry is present exactly
\* when the durable user entry is present.
C17_DurablePairTogether ==
    Quiescent => ((lsAccessToken # Absent) <=> (lsAuthUser # NoEntry))

\* tokens without exactly three segments, with a payload that does not
\* decode, or with an expiry field that is missing or not a number
Malformed(token) ==
    \/ Jwt(token).segments # 3
    \/ ~Jwt(token).decodes
    \/ Jwt(token).exp.type # "number"

\* C18: at every instant the clock is read, for a malformed token
\* getTokenExpiry, getTimeUntilExpiry and isTokenExpired return null, and so
\* does decodeJWT when the segments or the payload are at fault; for a
\* well-formed token getTimeUntilExpiry returns its expiry less the current
\* time. (A throw inside decodeJWT is caught there; the other three have
\* nothing that throws.)
C18_TokenClockUnknown ==
    \A token \in JwtInputs :
        /\ Malformed(token) =>
              /\ getTokenExpiry(token) = NoTime
              /\ getTimeUntilExpiry(token, now) = NoTime
              /\ isTokenExpired(token, now) = "null"
        /\ (Jwt(token).segments # 3 \/ ~Jwt(token).decodes) => decodeJWT(token) = NoPayload
        /\ ~Malformed(token) =>
              /\ getTimeUntilExpiry(token, now).known
              /\ getTimeUntilExpiry(token, now).ms = Jwt(token).exp.n * 1000 - now

\* C19: once status has left hydrating, a protected route shows its
\* children only to an authenticated session whose user has a role that
\* normalizes into the normalized allowedRoles; an unauthenticated session
\* is redirected to /login and an authenticated user with another role gets
\* Access Denied.
C19_ProtectedRouteDecision ==
    status # "hydrating" =>
        /\ ProtectedRoute(status, user) = "children" =>
              /\ status = "authenticated"
              /\ user # Null
              /\ normalizeRole(RoleOf(user)) \in {normalizeRole(r) : r \in AllowedRoles}
        /\ status = "unauthenticated" => ProtectedRoute(status, user) = "navigate"
        /\ (/\ status = "authenticated"
            /\ user # Null
            /\ normalizeRole(RoleOf(user)) \notin {normalizeRole(r) : r \in AllowedRoles})
           => ProtectedRoute(status, user) = "denied"

\* C20: an exchange the timer callback started had a token when it was
\* posted; if the token is absent when the exchange resolves, a logout or a
\* clearAccessToken ran in between and no login followed it. Resolving then
\* leaves the token absent in memory and in localStorage and arms no timer.
\* Stated of the public pages /p/..., which performLogout does not leave, so
\* that the page that posted the exchange is the one that sees it resolve.
C20_RefreshAfterLogoutRestoresNothing ==
    [][\A ex \in ExIds, t \in Tokens :
         (/\ RefreshOk(ex, t)
          /\ ex \in timerWait
          /\ accessToken = Null
          /\ pathname = "/p/x") =>
            /\ accessToken' = Null
            /\ lsAccessToken' = Absent
            /\ ~refreshTimer'.armed
            /\ timeouts' = {}]_vars

\* C21: when an exchange settles the handle is null afterwards if it was
\* this exchange's, and a handle of another exchange is left alone; with no
\* exchange pending the handle is null, and a call to refreshAccessToken()
\* (from the interceptor or the timer) then posts a new exchange and awaits it.
C21_HandleClearedOnSettle ==
    /\ [](pending = {} => refreshPromise = 0)
    /\ [][\A ex \in ExIds :
            (ex \in pending /\ ex \notin pending') =>
               /\ refreshPromise = ex => refreshPromise' = 0
               /\ refreshPromise \notin {0, ex} => refreshPromise' = refreshPromise]_vars
    /\ [][\A r \in Reqs :
            (pending = {} /\ Respond401(r)) =>
               /\ Cardinality(pending') = 1
               /\ req'[r].st = "refreshing"
               /\ req'[r].ex \in pending'
               /\ refreshPromise' = req'[r].ex]_vars
    /\ [][(pending = {} /\ TimerFire) =>
            (Cardinality(pending') = 1 /\ timerWait' = pending')]_vars

\* an exchange has settled and the next call has posted a new one
C21_Witness ==
    /\ \E r \in Reqs : req[r].st = "refreshing" /\ req[r].ex = refreshPromise
                         /\ req[r].auth = "T1"
    /\ Cardinality(pending) = 1
    /\ accessToken = "T1"
    /\ ctxAccessToken = "T0"

\* C22: when a refresh exchange resolves with t, the token of AuthService
\* and the durable token entry are t, and the timer is armed anew from t:
\* one timeout pending if t has a known remaining lifetime > 0, otherwise none.
C22_RefreshSuccessCommits ==
    [][pending' # pending =>
         \A ex \in ExIds, t \in Tokens :
            RefreshOk(ex, t) =>
               /\ accessToken' = t
               /\ lsAccessToken' = t
               /\ LET r == getTimeUntilExpiry(t, now)
                  IN  IF r.known /\ r.ms > 0
                      THEN /\ refreshTimer'.armed
                           /\ refreshTimer'.delay = Max(r.ms - GuardWindow, Floor)
                           /\ timeouts' = {[id |-> refreshTimer'.id,
                                            fireAt |-> now + refreshTimer'.delay]}
                      ELSE /\ ~refreshTimer'.armed
                           /\ timeouts' = {}]_vars

\* a refresh has replaced the boot's T0, whose timer was armed, by T2, which
\* has no expiry to schedule from
C22_Witness ==
    /\ bootPc = "refreshed"
    /\ ctxAccessToken = "T0"
    /\ accessToken = "T2"
    /\ lsAccessToken = "T2"
    /\ timeouts = {}
    /\ pending = {}
    /\ status = "authenticated"

\* C23: when a refresh exchange rejects with e, every request waiting on it
\* is rejected to its caller with e, and the coordinator decides no logout:
\* status, user, the durable user entry, the pending path and the location
\* stay as they were. (A waiting logout() goes on to its own performLogout,
\* so the exchanges it waits on are left out.)
C23_RefreshFailurePropagates ==
    [][pending' # pending =>
         \A ex \in ExIds, e \in Errors :
            (/\ RefreshFail(ex, e)
             /\ \A r \in Waiting(ex) : req[r].url # "/api/auth/logout/") =>
               /\ \A r \in Waiting(ex) : req'[r].st = "idle" /\ req'[r].res = e
               /\ status' = status
               /\ user' = user
               /\ ctxAccessToken' = ctxAccessToken
               /\ lsAuthUser' = lsAuthUser
               /\ lsPendingPath' = lsPendingPath
               /\ pathname' = pathname]_vars

\* the refresh a 401 started was rejected for the network and the request's
\* caller got that error, in a session still authenticated
C23_Witness ==
    /\ \E r \in Reqs : req[r].st = "idle" /\ req[r].res = "ENet" /\ req[r].sends = 1
    /\ status = "authenticated"
    /\ accessToken = Null
    /\ pending = {}
    /\ pathname = "/dashboard/products"

\* C24: in every state, setAccessToken of a token whose expiry is unknown
\* or not in the future leaves no timeout pending and no timer armed,
\* whatever was armed before, stores the token in memory and in the durable
\* entry, and the request interceptor then sends it as the bearer token; a
\* request sent while the service holds a token carries that token.
C24_UnschedulableTokenStillUsable ==
    /\ [](\A tk \in Tokens :
            LET r == getTimeUntilExpiry(tk, now)
                w == SetAccessToken(Cur, tk)
            IN  (~r.known \/ r.ms <= 0) =>
                   /\ ~w.refreshTimer.armed
                   /\ w.timeouts = {}
                   /\ w.accessToken = tk
                   /\ w.lsAccessToken = tk
                   /\ requestInterceptor(w, Null) = tk)
    /\ [][\A r \in Reqs :
            (req[r].st = "idle" /\ req'[r].st = "sent" /\ accessToken # Null) =>
               req'[r].auth = accessToken]_vars

\* a login returned T2, which has no expiry: no timer, and a request carries T2
C24_Witness ==
    /\ accessToken = "T2"
    /\ ctxAccessToken = "T2"
    /\ lsAccessToken = "T2"
    /\ status = "authenticated"
    /\ bootPc = "refreshed"
    /\ user = "U2"
    /\ timeouts = {}
    /\ ~refreshTimer.armed
    /\ \E r \in Reqs : req[r].st = "sent" /\ req[r].auth = "T2"

\* C25: in every state, clearAccessToken() leaves the token of AuthService
\* absent, no timer armed and no timeout pending, and the durable token entry
\* removed; the durable user entry, the registered logout callback and the
\* session status are as before.
C25_ClearAccessTokenFrame ==
    LET w == ClearAccessToken(Cur)
    IN  /\ w.accessToken = Null
        /\ ~w.refreshTimer.armed
        /\ w.timeouts = {}
        /\ w.lsAccessToken = Absent
        /\ w.lsAuthUser = lsAuthUser
        /\ w.onLogout = onLogout
        /\ w.status = status
        /\ w.user = user

\* the timer's refresh failed and its catch called clearAccessToken: token
\* and timer gone, user entry, callback and status kept
C25_Witness ==
    /\ accessToken = Null
    /\ lsAccessToken = Absent
    /\ lsAuthUser = Stringify("U2")
    /\ status = "authenticated"
    /\ onLogout
    /\ timeouts = {}
    /\ pending = {}
    /\ \A r \in Reqs : req[r].res = "none"

\* C26: when the refresh a first 401 started resolves with t, the request is
\* sent again, once, with t as its bearer token; a replayed request is not
\* sent a third time, and what it is answered is what its caller receives.
C26_ReplayWithRotatedToken ==
    /\ [][pending' # pending =>
            \A ex \in ExIds, t \in Tokens :
               RefreshOk(ex, t) =>
                  \A r \in Waiting(ex) :
                     /\ req[r].sends = 1
                     /\ req'[r].st = "sent"
                     /\ req'[r].sends = 2
                     /\ req'[r].retry
                     /\ req'[r].url = req[r].url
                     /\ req'[r].auth = t]_vars
    /\ [][req' # req =>
            \A r \in Reqs :
               (req[r].st = "sent" /\ req[r].sends = 2 /\ req'[r] # req[r]) =>
                  /\ req'[r].st = "idle"
                  /\ req'[r].sends = 2
                  /\ Respond200(r) => req'[r].res = "ok"
                  /\ \A e \in Errors : RespondError(r, e) => req'[r].res = e]_vars

\* a replay that carried the rotated token T1 was answered 200
C26_Witness ==
    /\ \E r \in Reqs : req[r].st = "idle" /\ req[r].res = "ok" /\ req[r].sends = 2
    /\ accessToken = "T1"
    /\ ctxAccessToken = "T0"
    /\ pending = {}

\* C27: when logout() returns, 'pending_path' holds the path the page was on
\* when performLogout ran if that path is neither /login nor under /p/, and is
\* absent otherwise, whatever it held before.
C27_PendingPathAfterLogout ==
    [][req' # req =>
         \A r \in Reqs :
            LogoutReturns(r) =>
               lsPendingPath' = IF pathname # "/login" /\ pathname # "/p/x"
                                THEN pathname
                                ELSE Absent]_vars

\* a logout on /dashboard/products whose POST was answered 200 has returned
C27_Witness ==
    /\ \E r \in Reqs : req[r].st = "idle" /\ req[r].res = "ok" /\ req[r].sends = 1
    /\ bootPc = "refreshed"
    /\ pathname = "/login"
    /\ lsPendingPath = "/dashboard/products"
    /\ status = "unauthenticated"
    /\ timeouts = {}

\* C28: when the boot-time silent refresh settles after a login has
\* succeeded, status stays authenticated and the token and the user the login
\* committed stay as they are, in memory and in localStorage.
C28_LoginSurvivesBoot ==
    [][(bootPc = "awaitSilent" /\ bootPc' # "awaitSilent"
        /\ status = "authenticated") =>
          /\ status' = "authenticated"
          /\ user' = user
          /\ ctxAccessToken' = ctxAccessToken
          /\ accessToken' = accessToken
          /\ lsAccessToken' = lsAccessToken
          /\ lsAuthUser' = lsAuthUser]_vars

\* the boot sequence failed after U2 had logged in
C28_Witness ==
    /\ bootPc = "failed"
    /\ loginPc = "idle"
    /\ lsAuthUser = Stringify("U2")
    /\ status = "unauthenticated"
    /\ accessToken = Null

\* C29: whenever status is authenticated, getAccessToken() of the auth
\* context returns the token AuthService holds and the request interceptor
\* attaches.
C29_AccessorMatchesStore ==
    status = "authenticated" =>
       /\ ctxAccessToken = accessToken
       /\ requestInterceptor(Cur, Null) = ctxAccessToken

\* C30: whenever a step arms the refresh timer for a token whose remaining
\* lifetime r is known and positive, the armed delay is strictly less than r.
C30_TimerFiresBeforeExpiry ==
    [][(refreshTimer' # refreshTimer /\ refreshTimer'.armed /\ accessToken' # Null) =>
          LET r == getTimeUntilExpiry(accessToken', now')
          IN  (r.known /\ ~r.nan /\ r.ms > 0) => refreshTimer'.delay < r.ms]_vars

====
